---- MODULE Spec2Model ----
(***************************************************************************)
(* State-machine model of iam.DefaultClient (src/defaultclient.go): local  *)
(* token validation, the background refresh goroutines and HealthCheck.    *)
(* Helpers of the package that live outside defaultclient.go (getJWKS,     *)
(* getRevocationList, refreshJWKS, refreshRevocationList, validateJWT,     *)
(* userRevoked, tokenRevoked, clientTokenGrant, refreshAccessToken) are     *)
(* modelled from the design document, sections 4.1-4.5.                    *)
(***************************************************************************)
EXTENDS Naturals, FiniteSets, Sequences, TLC

\* Bounds: how many successful StartLocalValidation / ClientTokenGrant calls
\* the model follows (each spawns goroutines that live forever).
MaxStarts == 2
MaxGrants == 2

\* Bounds of the permission / audience part: the clock runs from 0 to MaxTime
\* and a cache entry set at time t is served up to and including t + CacheTTL.
MaxTime == 2
CacheTTL == 1

VARIABLES
    rolePermissionCache,         \* DefaultClient.rolePermissionCache
    baseURICache,                \* DefaultClient.baseURICache
    now,                         \* the clock the caches read
    pcall,                       \* the last ValidatePermission / ValidateAudience call
    keys,                        \* DefaultClient.keys
    clientAccessToken,           \* DefaultClient.clientAccessToken
    revocationFilter,            \* DefaultClient.revocationFilter
    revokedUsers,                \* DefaultClient.revokedUsers
    tokenRefreshActive,          \* DefaultClient.tokenRefreshActive
    localValidationActive,       \* DefaultClient.localValidationActive
    jwksRefreshError,            \* DefaultClient.jwksRefreshError
    revocationListRefreshError,  \* DefaultClient.revocationListRefreshError
    tokenRefreshError,           \* DefaultClient.tokenRefreshError
    jwksTasks,                   \* goroutines running refreshJWKS
    revocationTasks,             \* goroutines running refreshRevocationList
    tokenSpawned,                \* ClientTokenGrant goroutines not yet started
    tokenTasks,                  \* ClientTokenGrant goroutines past line 124
    call                         \* the caller's current / last public call

\* The state of the permission / audience part.
permVars == <<rolePermissionCache, baseURICache, now, pcall>>

vars == <<keys, clientAccessToken, revocationFilter, revokedUsers,
          tokenRefreshActive, localValidationActive, jwksRefreshError,
          revocationListRefreshError, tokenRefreshError, jwksTasks,
          revocationTasks, tokenSpawned, tokenTasks, call, permVars>>

\* The state of the validation / refresh part.
validationVars == <<keys, clientAccessToken, revocationFilter, revokedUsers,
                    tokenRefreshActive, localValidationActive, jwksRefreshError,
                    revocationListRefreshError, tokenRefreshError, jwksTasks,
                    revocationTasks, tokenSpawned, tokenTasks, call>>

\* The fields of DefaultClient (everything but the goroutines and the caller).
clientFields == <<keys, clientAccessToken, revocationFilter, revokedUsers,
                  tokenRefreshActive, localValidationActive, jwksRefreshError,
                  revocationListRefreshError, tokenRefreshError>>

----------------------------------------------------------------------------
\* Values

NoError == "nil"
FetchFailed == "FetchFailed"

\* map[string]*rsa.PublicKey: nil until the first getJWKS succeeds.
NilKeys == [isNil |-> TRUE, kids |-> {}]
KeySets == { [isNil |-> FALSE, kids |-> {"k1"}],
             [isNil |-> FALSE, kids |-> {"k1", "k2"}] }

\* *bloom.Filter: nil until the first getRevocationList succeeds.
NilFilter == [isNil |-> TRUE, bits |-> {}]

\* map[string]time.Time; a nil map reads like an empty one.
NoRevokedUsers == [u \in {} |-> 0]

\* Access tokens the callers may present: raw token id, key id of the header,
\* outcome of decoding / signature / expiry, subject and issued-at.
Tokens == {
    [id |-> "tA", kid |-> "k1", jwt |-> "ok",        sub |-> "u1", iat |-> 1],
    [id |-> "tB", kid |-> "k1", jwt |-> "ok",        sub |-> "u1", iat |-> 2],
    [id |-> "tC", kid |-> "k1", jwt |-> "ok",        sub |-> "u1", iat |-> 3],
    [id |-> "tD", kid |-> "k1", jwt |-> "ok",        sub |-> "u2", iat |-> 3],
    [id |-> "tE", kid |-> "k2", jwt |-> "ok",        sub |-> "u2", iat |-> 3],
    [id |-> "tF", kid |-> "k1", jwt |-> "expired",   sub |-> "u2", iat |-> 1],
    [id |-> "tG", kid |-> "k1", jwt |-> "badsig",    sub |-> "u1", iat |-> 3],
    [id |-> "tH", kid |-> "k1", jwt |-> "malformed", sub |-> "u1", iat |-> 3] }

\* bloom.Filter: the bit positions a token id hashes to.
BloomBits(id) ==
    CASE id = "tA" -> {0, 3}
      [] id = "tB" -> {2, 3}
      [] id = "tC" -> {0, 1}
      [] id = "tD" -> {0, 2}
      [] id = "tE" -> {1, 2}
      [] OTHER     -> {1, 3}

\* bloom.From / Put: the filter holding the given token ids.
BloomFrom(ids) == [isNil |-> FALSE, bits |-> UNION { BloomBits(i) : i \in ids }]

\* bloom.Filter.MightContain
MightContain(filter, id) == BloomBits(id) \subseteq filter.bits

\* Revocation lists the IAM service may publish: revoked token ids and
\* revoked subject -> revocation time.
RevocationLists == {
    [tokens |-> {},           users |-> NoRevokedUsers],
    [tokens |-> {"tC"},       users |-> [u \in {"u1"} |-> 2]],
    [tokens |-> {"tC", "tE"}, users |-> [u \in {"u1", "u2"} |-> 2]] }

NilClaims == <<>>
ClaimsOf(tok) == <<tok.sub, tok.iat>>

NoToken == [id |-> "none", kid |-> "none", jwt |-> "none", sub |-> "none", iat |-> 0]

\* What the external collaborators may answer: a failure or a payload.
KeyFetches == { [ok |-> FALSE, val |-> NilKeys] }
              \cup { [ok |-> TRUE, val |-> k] : k \in KeySets }
RevocationFetches == { [ok |-> FALSE, val |-> [tokens |-> {}, users |-> NoRevokedUsers]] }
                     \cup { [ok |-> TRUE, val |-> r] : r \in RevocationLists }
GrantFetches == { [ok |-> FALSE, val |-> ""] }
                \cup { [ok |-> TRUE, val |-> b] : b \in {"bearer"} }

Idle == [op |-> "none", pc |-> "done", tok |-> NoToken, err |-> NoError,
         claims |-> NilClaims, seenKeys |-> NilKeys,
         seenUsers |-> NoRevokedUsers, seenFilter |-> NilFilter,
         healthy |-> FALSE]

----------------------------------------------------------------------------
\* Values of the permission / audience part

errRoleNotFound == "errRoleNotFound"

\* Permission: a resource pattern (its colon-delimited segments) and an action
\* bitmask (the set of its bits: 2 = {2}, 6 = {2, 4}).
Permission(resource, action) == [Resource |-> resource, Action |-> action]

RoleIds == {"mod", "self", "ghost"}

\* What the role store answers for a role it knows.
RoleGrants(roleID) ==
    CASE roleID = "mod"  -> { Permission(<<"NAMESPACE", "*", "USER", "*">>, {2, 4}) }
      [] roleID = "self" -> { Permission(<<"NAMESPACE", "{namespace}", "USER", "{userId}">>, {2}) }
      [] OTHER           -> {}

\* Outcomes of the role-permission fetch, per role: found, not found (404)
\* or another failure.
RoleFetches ==
    { f \in [RoleIds -> {"found", "notfound", "fail"}] :
        /\ f["mod"] \in {"found", "fail"}
        /\ f["self"] \in {"found", "notfound"}
        /\ f["ghost"] \in {"notfound", "fail"} }

\* JWTClaims as ValidatePermission and ValidateAudience read them.
NilJWTClaims == [isNil |-> TRUE, Subject |-> "", Namespace |-> "", Roles |-> <<>>,
                 Permissions |-> {}, hasAudience |-> FALSE, Audience |-> <<>>]

JWTClaims(sub, roles, perms) ==
    [isNil |-> FALSE, Subject |-> sub, Namespace |-> "accel", Roles |-> roles,
     Permissions |-> perms, hasAudience |-> FALSE, Audience |-> <<>>]

\* requiredPermission and permissionResources of the callers.
UserResource == <<"NAMESPACE", "{namespace}", "USER", "{userId}">>
TwiceResource == <<"NAMESPACE", "{namespace}", "{namespace}", "{userId}">>

AccelUser42 == ("{namespace}" :> "accel" @@ "{userId}" :> "42")
UserUser42 == ("{namespace}" :> "USER" @@ "{userId}" :> "42")
Chained42 == ("{namespace}" :> "{userId}" @@ "{userId}" :> "42")

PermissionRequest(claims, resource, action, bindings) ==
    [claims |-> claims, required |-> Permission(resource, action), bindings |-> bindings]

\* The ValidatePermission calls the callers make.
PermissionRequests ==
    { PermissionRequest(NilJWTClaims, UserResource, {2}, AccelUser42),
      PermissionRequest(NilJWTClaims, TwiceResource, {2, 8}, UserUser42),
      PermissionRequest(JWTClaims("42", <<"ghost">>,
                          { Permission(<<"NAMESPACE", "accel", "USER", "42">>, {2}) }),
                        UserResource, {2}, AccelUser42),
      PermissionRequest(JWTClaims("42", <<"mod">>, {}), UserResource, {2}, AccelUser42),
      PermissionRequest(JWTClaims("42", <<"mod">>, {}), UserResource, {2, 8}, AccelUser42),
      PermissionRequest(JWTClaims("42", <<"ghost", "mod">>, {}), UserResource, {2}, AccelUser42),
      PermissionRequest(JWTClaims("42", <<"mod", "ghost">>, {}), UserResource, {2}, AccelUser42),
      PermissionRequest(JWTClaims("42", <<"self">>, {}), UserResource, {2}, AccelUser42),
      PermissionRequest(JWTClaims("43", <<"self">>, {}), UserResource, {2}, AccelUser42),
      PermissionRequest(JWTClaims("42", <<"ghost">>, {}), UserResource, {2}, AccelUser42),
      PermissionRequest(JWTClaims("42", <<>>,
                          { Permission(<<"NAMESPACE", "USER", "USER", "42">>, {2}) }),
                        TwiceResource, {2}, UserUser42),
      PermissionRequest(JWTClaims("42", <<>>,
                          { Permission(<<"NAMESPACE", "42", "USER", "*">>, {2}) }),
                        UserResource, {2}, Chained42) }

\* The orders in which range may visit the keys of a map.
IterationOrders(m) ==
    { o \in [1..Cardinality(DOMAIN m) -> DOMAIN m] :
        \A i, j \in DOMAIN o : i # j => o[i] # o[j] }

\* An entry of a go-cache: absent, or a value with its expiration time.
NoRoleEntry == [present |-> FALSE, found |-> FALSE, perms |-> {}, expiry |-> 0]
NoURIEntry == [present |-> FALSE, uri |-> "", expiry |-> 0]

\* Claims with an audience (nil when hasAudience is FALSE).
AudienceClaims(aud) ==
    [isNil |-> FALSE, Subject |-> "42", Namespace |-> "accel", Roles |-> <<>>,
     Permissions |-> {}, hasAudience |-> TRUE, Audience |-> aud]

\* The ValidateAudience calls the callers make.
AudienceRequests ==
    { NilJWTClaims,
      JWTClaims("42", <<>>, {}),
      AudienceClaims(<<>>),
      AudienceClaims(<<"https://app">>),
      AudienceClaims(<<"https://other", "https://app">>),
      AudienceClaims(<<"https://other">>) }

\* Outcomes of the client-information request: a failure, or the client's
\* registered base URI.
BaseURIFetches == { [ok |-> FALSE, val |-> ""] }
                  \cup { [ok |-> TRUE, val |-> u] : u \in {"https://app", "https://new"} }

NoPermCall == [op |-> "none", claims |-> NilJWTClaims, resource |-> <<>>,
               action |-> {}, ok |-> FALSE, err |-> NoError, fetched |-> <<>>,
               baseURI |-> "", pattern |-> <<>>, bindings |-> <<>>]

----------------------------------------------------------------------------
Init ==
    /\ rolePermissionCache = [r \in RoleIds |-> NoRoleEntry]
    /\ baseURICache = NoURIEntry
    /\ now = 0
    /\ pcall = NoPermCall
    /\ keys = NilKeys
    /\ clientAccessToken = ""
    /\ revocationFilter = NilFilter
    /\ revokedUsers = NoRevokedUsers
    /\ tokenRefreshActive = FALSE
    /\ localValidationActive = FALSE
    /\ jwksRefreshError = NoError
    /\ revocationListRefreshError = NoError
    /\ tokenRefreshError = NoError
    /\ jwksTasks = 0
    /\ revocationTasks = 0
    /\ tokenSpawned = 0
    /\ tokenTasks = 0
    /\ call = Idle

----------------------------------------------------------------------------
\* Helpers of the package (design document 4.1-4.5)

\* validateJWT: decode, key lookup by key id, signature and expiry.
validateJWT(tok, ks) ==
    IF tok.jwt = "malformed" THEN "MalformedToken"
    ELSE IF tok.kid \notin ks.kids THEN "UnknownKey"
    ELSE IF tok.jwt = "badsig" THEN "InvalidSignature"
    ELSE IF tok.jwt = "expired" THEN "Expired"
    ELSE "ok"

\* userRevoked: the subject is in the revoked-subject map with a revocation
\* timestamp >= the token's issued-at time.
userRevoked(users, sub, iat) ==
    /\ sub \in DOMAIN users
    /\ users[sub] >= iat

\* tokenRevoked: the raw token is in the probabilistic filter.
tokenRevoked(filter, id) == MightContain(filter, id)

\* Mutant of getJWKS: a failed fetch wipes the installed key set.
getJWKS_ClearsOnFailure(f) == IF f.ok THEN f.val ELSE NilKeys

\* getJWKS: on success the fetched key set replaces client.keys, on failure
\* the previous key set stays.
getJWKS(f) == IF f.ok THEN f.val ELSE keys

\* getRevocationList: on success the fetched list replaces the filter and the
\* revoked-subject map, on failure the previous ones stay.
getRevocationFilter(f) == IF f.ok THEN BloomFrom(f.val.tokens) ELSE revocationFilter
getRevokedUsers(f) == IF f.ok THEN f.val.users ELSE revokedUsers

ErrorOf(f) == IF f.ok THEN NoError ELSE FetchFailed

----------------------------------------------------------------------------
\* Public operations (the caller runs one at a time; goroutines interleave)

CallerFree == call.pc = "done"

\* ClientTokenGrant, lines 118-129: grant, then spawn the refresh goroutine.
ClientTokenGrant(g) ==
    /\ CallerFree
    /\ tokenSpawned + tokenTasks < MaxGrants
    /\ call' = [Idle EXCEPT !.op = "ClientTokenGrant", !.err = ErrorOf(g)]
    /\ clientAccessToken' = IF g.ok THEN g.val ELSE clientAccessToken
    /\ tokenSpawned' = IF g.ok THEN tokenSpawned + 1 ELSE tokenSpawned
    /\ UNCHANGED <<keys, revocationFilter, revokedUsers, tokenRefreshActive,
                   localValidationActive, jwksRefreshError,
                   revocationListRefreshError, tokenRefreshError, jwksTasks,
                   revocationTasks, tokenTasks>>

\* The goroutine of ClientTokenGrant, lines 123-125: it marks bearer-token
\* refresh active and goes to sleep.
TokenGoroutineStart ==
    /\ tokenSpawned > 0
    /\ tokenRefreshActive' = TRUE
    /\ tokenSpawned' = tokenSpawned - 1
    /\ tokenTasks' = tokenTasks + 1
    /\ UNCHANGED <<keys, clientAccessToken, revocationFilter, revokedUsers,
                   localValidationActive, jwksRefreshError,
                   revocationListRefreshError, tokenRefreshError, jwksTasks,
                   revocationTasks, call>>

\* refreshAccessToken (line 126): one cycle of the bearer-token refresh loop.
refreshAccessToken(g) ==
    /\ tokenTasks > 0
    /\ clientAccessToken' = IF g.ok THEN g.val ELSE clientAccessToken
    /\ tokenRefreshError' = ErrorOf(g)
    /\ UNCHANGED <<keys, revocationFilter, revokedUsers, tokenRefreshActive,
                   localValidationActive, jwksRefreshError,
                   revocationListRefreshError, jwksTasks, revocationTasks,
                   tokenSpawned, tokenTasks, call>>

\* Mutant of StartLocalValidationError: the error of getRevocationList is
\* not looked at.
StartLocalValidationError_IgnoresRevocationFailure(jw, rl) ==
    IF ~jw.ok THEN "unable to get JWKS" ELSE NoError

\* StartLocalValidation, lines 138-154.
StartLocalValidationError(jw, rl) ==
    IF ~jw.ok THEN "unable to get JWKS"
    ELSE IF ~rl.ok THEN "unable to get revocation list"
    ELSE NoError

\* Mutant of StartLocalValidation: the goroutines are started before the
\* errors of the two fetches are looked at.
StartLocalValidation_SpawnsBeforeChecks(jw, rl) ==
    LET err == StartLocalValidationError(jw, rl) IN
    /\ CallerFree
    /\ jwksTasks < MaxStarts
    /\ call' = [Idle EXCEPT !.op = "StartLocalValidation", !.err = err]
    /\ keys' = getJWKS(jw)
    /\ revocationFilter' = IF jw.ok THEN getRevocationFilter(rl) ELSE revocationFilter
    /\ revokedUsers' = IF jw.ok THEN getRevokedUsers(rl) ELSE revokedUsers
    /\ jwksTasks' = jwksTasks + 1
    /\ revocationTasks' = revocationTasks + 1
    /\ localValidationActive' = IF err = NoError THEN TRUE ELSE localValidationActive
    /\ UNCHANGED <<clientAccessToken, tokenRefreshActive, jwksRefreshError,
                   revocationListRefreshError, tokenRefreshError, tokenSpawned,
                   tokenTasks>>

StartLocalValidation(jw, rl) ==
    LET err == StartLocalValidationError(jw, rl) IN
    /\ CallerFree
    /\ jwksTasks < MaxStarts
    /\ call' = [Idle EXCEPT !.op = "StartLocalValidation", !.err = err]
    /\ keys' = getJWKS(jw)
    /\ revocationFilter' = IF jw.ok THEN getRevocationFilter(rl) ELSE revocationFilter
    /\ revokedUsers' = IF jw.ok THEN getRevokedUsers(rl) ELSE revokedUsers
    /\ jwksTasks' = IF err = NoError THEN jwksTasks + 1 ELSE jwksTasks
    /\ revocationTasks' = IF err = NoError THEN revocationTasks + 1 ELSE revocationTasks
    /\ localValidationActive' = IF err = NoError THEN TRUE ELSE localValidationActive
    /\ UNCHANGED <<clientAccessToken, tokenRefreshActive, jwksRefreshError,
                   revocationListRefreshError, tokenRefreshError, tokenSpawned,
                   tokenTasks>>

\* refreshJWKS (spawned at line 149): one cycle of the key refresh loop.
refreshJWKS(f) ==
    /\ jwksTasks > 0
    /\ keys' = getJWKS(f)
    /\ jwksRefreshError' = ErrorOf(f)
    /\ UNCHANGED <<clientAccessToken, revocationFilter, revokedUsers,
                   tokenRefreshActive, localValidationActive,
                   revocationListRefreshError, tokenRefreshError, jwksTasks,
                   revocationTasks, tokenSpawned, tokenTasks, call>>

\* refreshRevocationList (spawned at line 150): one cycle of the revocation
\* refresh loop.
refreshRevocationList(f) ==
    /\ revocationTasks > 0
    /\ revocationFilter' = getRevocationFilter(f)
    /\ revokedUsers' = getRevokedUsers(f)
    /\ revocationListRefreshError' = ErrorOf(f)
    /\ UNCHANGED <<keys, clientAccessToken, tokenRefreshActive,
                   localValidationActive, jwksRefreshError, tokenRefreshError,
                   jwksTasks, revocationTasks, tokenSpawned, tokenTasks, call>>

\* Mutant of ValidateJWTStep: the error of validateJWT is not looked at.
ValidateJWTStep_IgnoresJWTError(tok) ==
    /\ CallerFree
    /\ call' =
         IF ~localValidationActive
         THEN [Idle EXCEPT !.op = "ValidateAndParseClaims", !.tok = tok,
                           !.err = "NotActivated"]
         ELSE [Idle EXCEPT !.op = "ValidateAndParseClaims", !.tok = tok,
                           !.pc = "userRevoked", !.seenKeys = keys]
    /\ UNCHANGED <<clientFields, jwksTasks, revocationTasks, tokenSpawned, tokenTasks>>

\* ValidateAndParseClaims, lines 163-170: activation check and validateJWT.
ValidateJWTStep(tok) ==
    /\ CallerFree
    /\ call' =
         IF ~localValidationActive
         THEN [Idle EXCEPT !.op = "ValidateAndParseClaims", !.tok = tok,
                           !.err = "NotActivated"]
         ELSE IF validateJWT(tok, keys) # "ok"
         THEN [Idle EXCEPT !.op = "ValidateAndParseClaims", !.tok = tok,
                           !.err = "UnableToVerifyJWT", !.seenKeys = keys]
         ELSE [Idle EXCEPT !.op = "ValidateAndParseClaims", !.tok = tok,
                           !.pc = "userRevoked", !.seenKeys = keys]
    /\ UNCHANGED <<clientFields, jwksTasks, revocationTasks, tokenSpawned, tokenTasks>>

\* Mutant of ValidateUserRevokedStep: the condition of line 171 is negated.
ValidateUserRevokedStep_Negated ==
    /\ call.pc = "userRevoked"
    /\ call' =
         IF ~userRevoked(revokedUsers, call.tok.sub, call.tok.iat)
         THEN [call EXCEPT !.pc = "done", !.err = "UserRevoked",
                           !.seenUsers = revokedUsers]
         ELSE [call EXCEPT !.pc = "tokenRevoked", !.seenUsers = revokedUsers]
    /\ UNCHANGED <<clientFields, jwksTasks, revocationTasks, tokenSpawned, tokenTasks>>

\* Mutant of ValidateUserRevokedStep: the result of userRevoked is dropped.
ValidateUserRevokedStep_Skipped ==
    /\ call.pc = "userRevoked"
    /\ call' = [call EXCEPT !.pc = "tokenRevoked", !.seenUsers = revokedUsers]
    /\ UNCHANGED <<clientFields, jwksTasks, revocationTasks, tokenSpawned, tokenTasks>>

\* ValidateAndParseClaims, lines 171-173: the subject-level check.
ValidateUserRevokedStep ==
    /\ call.pc = "userRevoked"
    /\ call' =
         IF userRevoked(revokedUsers, call.tok.sub, call.tok.iat)
         THEN [call EXCEPT !.pc = "done", !.err = "UserRevoked",
                           !.seenUsers = revokedUsers]
         ELSE [call EXCEPT !.pc = "tokenRevoked", !.seenUsers = revokedUsers]
    /\ UNCHANGED <<clientFields, jwksTasks, revocationTasks, tokenSpawned, tokenTasks>>

\* Mutant of ValidateTokenRevokedStep: the condition of line 174 is negated.
ValidateTokenRevokedStep_Negated ==
    /\ call.pc = "tokenRevoked"
    /\ call' =
         IF ~tokenRevoked(revocationFilter, call.tok.id)
         THEN [call EXCEPT !.pc = "done", !.err = "TokenRevoked",
                           !.seenFilter = revocationFilter]
         ELSE [call EXCEPT !.pc = "done", !.err = NoError,
                           !.claims = ClaimsOf(call.tok),
                           !.seenFilter = revocationFilter]
    /\ UNCHANGED <<clientFields, jwksTasks, revocationTasks, tokenSpawned, tokenTasks>>

\* ValidateAndParseClaims, lines 174-178: the token-level check and the return.
ValidateTokenRevokedStep ==
    /\ call.pc = "tokenRevoked"
    /\ call' =
         IF tokenRevoked(revocationFilter, call.tok.id)
         THEN [call EXCEPT !.pc = "done", !.err = "TokenRevoked",
                           !.seenFilter = revocationFilter]
         ELSE [call EXCEPT !.pc = "done", !.err = NoError,
                           !.claims = ClaimsOf(call.tok),
                           !.seenFilter = revocationFilter]
    /\ UNCHANGED <<clientFields, jwksTasks, revocationTasks, tokenSpawned, tokenTasks>>

\* Mutant of HealthCheck: the key-refresh slot is not looked at.
HealthCheck_IgnoresJWKSError ==
    IF revocationListRefreshError # NoError THEN FALSE
    ELSE IF tokenRefreshActive /\ tokenRefreshError # NoError THEN FALSE
    ELSE TRUE

\* Mutant of HealthCheck: || for && at line 259.
HealthCheck_OrForAnd ==
    IF jwksRefreshError # NoError THEN FALSE
    ELSE IF revocationListRefreshError # NoError THEN FALSE
    ELSE IF tokenRefreshActive \/ tokenRefreshError # NoError THEN FALSE
    ELSE TRUE

\* HealthCheck, lines 252-263.
HealthCheck ==
    IF jwksRefreshError # NoError THEN FALSE
    ELSE IF revocationListRefreshError # NoError THEN FALSE
    ELSE IF tokenRefreshActive /\ tokenRefreshError # NoError THEN FALSE
    ELSE TRUE

HealthCheckCall ==
    /\ CallerFree
    /\ call' = [Idle EXCEPT !.op = "HealthCheck", !.healthy = HealthCheck]
    /\ UNCHANGED <<clientFields, jwksTasks, revocationTasks, tokenSpawned, tokenTasks>>

Next ==
    /\ \/ \E g \in GrantFetches : ClientTokenGrant(g)
       \/ TokenGoroutineStart
       \/ \E g \in GrantFetches : refreshAccessToken(g)
       \/ \E jw \in KeyFetches, rl \in RevocationFetches : StartLocalValidation(jw, rl)
       \/ \E f \in KeyFetches : refreshJWKS(f)
       \/ \E f \in RevocationFetches : refreshRevocationList(f)
       \/ \E tok \in Tokens : ValidateJWTStep(tok)
       \/ ValidateUserRevokedStep
       \/ ValidateTokenRevokedStep
       \/ HealthCheckCall
    /\ UNCHANGED permVars

Spec == Init /\ [][Next]_vars

\* The key refresh loop ticks for ever, and a key-set fetcher that eventually
\* succeeds lets a successful key-refresh cycle happen.
FairSpec ==
    /\ Spec
    /\ WF_vars((\E f \in KeyFetches : f.ok /\ refreshJWKS(f)) /\ UNCHANGED permVars)

----------------------------------------------------------------------------
\* Permission resolution and audience validation

\* strings.Replace(s, old, new, 1) of line 192, on the segments of a
\* pattern: the first occurrence only is replaced.
ReplaceFirst(res, old, new) ==
    LET at == { i \in DOMAIN res : res[i] = old } IN
    IF at = {} THEN res
    ELSE [res EXCEPT ![CHOOSE i \in at : \A j \in at : i <= j] = new]

\* strings.Replace(s, old, new, -1): every occurrence is replaced.
ReplaceAll(res, old, new) == [i \in DOMAIN res |-> IF res[i] = old THEN new ELSE res[i]]

\* Lines 191-193: the bindings applied in the order range visits them.
RECURSIVE ApplyBindings(_, _, _)
ApplyBindings(res, bindings, order) ==
    IF order = <<>> THEN res
    ELSE ApplyBindings(ReplaceFirst(res, Head(order), bindings[Head(order)]),
                       bindings, Tail(order))

\* Match rule of design document 4.4.
resourceAllowed(granted, required) ==
    /\ Len(granted) = Len(required)
    /\ \A i \in DOMAIN granted : granted[i] = "*" \/ granted[i] = required[i]

actionAllowed(grantedAction, requiredAction) == requiredAction \subseteq grantedAction

permissionAllowed(grantedPermissions, requiredPermission) ==
    \E g \in grantedPermissions :
        /\ resourceAllowed(g.Resource, requiredPermission.Resource)
        /\ actionAllowed(g.Action, requiredPermission.Action)

\* applyUserPermissionResourceValues: the token's own subject and namespace
\* are put into the granted patterns; the result is a new permission list.
applyUserPermissionResourceValues(grantedPermissions, claims) ==
    { [g EXCEPT !.Resource =
          ReplaceAll(ReplaceAll(g.Resource, "{userId}", claims.Subject),
                     "{namespace}", claims.Namespace)] : g \in grantedPermissions }

\* go-cache Get: an entry is served until its expiration time has passed.
CacheHit(entry, t) == entry.present /\ t <= entry.expiry

\* Mutant of getRolePermission: a not-found outcome is not cached.
getRolePermission_NoNegativeCaching(roleID, cache, fetch, t) ==
    IF CacheHit(cache[roleID], t)
    THEN [perms |-> cache[roleID].perms,
          err |-> IF cache[roleID].found THEN NoError ELSE errRoleNotFound,
          cache |-> cache, fetched |-> <<>>]
    ELSE CASE fetch[roleID] = "found" ->
                [perms |-> RoleGrants(roleID), err |-> NoError,
                 cache |-> [cache EXCEPT ![roleID] =
                              [present |-> TRUE, found |-> TRUE,
                               perms |-> RoleGrants(roleID), expiry |-> t + CacheTTL]],
                 fetched |-> <<roleID>>]
           [] fetch[roleID] = "notfound" ->
                [perms |-> {}, err |-> errRoleNotFound, cache |-> cache,
                 fetched |-> <<roleID>>]
           [] OTHER ->
                [perms |-> {}, err |-> FetchFailed, cache |-> cache,
                 fetched |-> <<roleID>>]

\* getRolePermission: the cached value if unexpired; otherwise the fetch,
\* whose found or not-found outcome is cached for the configured time.
getRolePermission(roleID, cache, fetch, t) ==
    IF CacheHit(cache[roleID], t)
    THEN [perms |-> cache[roleID].perms,
          err |-> IF cache[roleID].found THEN NoError ELSE errRoleNotFound,
          cache |-> cache, fetched |-> <<>>]
    ELSE CASE fetch[roleID] = "found" ->
                [perms |-> RoleGrants(roleID), err |-> NoError,
                 cache |-> [cache EXCEPT ![roleID] =
                              [present |-> TRUE, found |-> TRUE,
                               perms |-> RoleGrants(roleID), expiry |-> t + CacheTTL]],
                 fetched |-> <<roleID>>]
           [] fetch[roleID] = "notfound" ->
                [perms |-> {}, err |-> errRoleNotFound,
                 cache |-> [cache EXCEPT ![roleID] =
                              [present |-> TRUE, found |-> FALSE,
                               perms |-> {}, expiry |-> t + CacheTTL]],
                 fetched |-> <<roleID>>]
           [] OTHER ->
                [perms |-> {}, err |-> FetchFailed, cache |-> cache,
                 fetched |-> <<roleID>>]

\* Mutant of RoleLoop: errRoleNotFound is returned like any other error.
RECURSIVE RoleLoop_NotFoundSurfaced(_, _, _, _, _, _)
RoleLoop_NotFoundSurfaced(roles, claims, requiredPermission, cache, fetch, t) ==
    IF roles = <<>>
    THEN [ok |-> FALSE, err |-> NoError, cache |-> cache, fetched |-> <<>>]
    ELSE LET g == getRolePermission(Head(roles), cache, fetch, t)
             rest == RoleLoop_NotFoundSurfaced(Tail(roles), claims, requiredPermission,
                                               g.cache, fetch, t)
         IN  IF g.err # NoError
             THEN [ok |-> FALSE, err |-> g.err, cache |-> g.cache, fetched |-> g.fetched]
             ELSE IF permissionAllowed(
                        applyUserPermissionResourceValues(g.perms, claims),
                        requiredPermission)
                  THEN [ok |-> TRUE, err |-> NoError, cache |-> g.cache,
                        fetched |-> g.fetched]
                  ELSE [rest EXCEPT !.fetched = g.fetched \o rest.fetched]

\* Mutant of RoleLoop: a role that is not found ends the loop (break for
\* continue at line 201).
RECURSIVE RoleLoop_NotFoundStops(_, _, _, _, _, _)
RoleLoop_NotFoundStops(roles, claims, requiredPermission, cache, fetch, t) ==
    IF roles = <<>>
    THEN [ok |-> FALSE, err |-> NoError, cache |-> cache, fetched |-> <<>>]
    ELSE LET g == getRolePermission(Head(roles), cache, fetch, t)
             rest == RoleLoop_NotFoundStops(Tail(roles), claims, requiredPermission,
                                            g.cache, fetch, t)
         IN  IF g.err # NoError
             THEN IF g.err = errRoleNotFound
                  THEN [ok |-> FALSE, err |-> NoError, cache |-> g.cache,
                        fetched |-> g.fetched]
                  ELSE [ok |-> FALSE, err |-> g.err, cache |-> g.cache,
                        fetched |-> g.fetched]
             ELSE IF permissionAllowed(
                        applyUserPermissionResourceValues(g.perms, claims),
                        requiredPermission)
                  THEN [ok |-> TRUE, err |-> NoError, cache |-> g.cache,
                        fetched |-> g.fetched]
                  ELSE [rest EXCEPT !.fetched = g.fetched \o rest.fetched]

\* Mutant of RoleLoop: the substituted patterns are written through to the
\* cached entry of the role.
RECURSIVE RoleLoop_SubstitutesInPlace(_, _, _, _, _, _)
RoleLoop_SubstitutesInPlace(roles, claims, requiredPermission, cache, fetch, t) ==
    IF roles = <<>>
    THEN [ok |-> FALSE, err |-> NoError, cache |-> cache, fetched |-> <<>>]
    ELSE LET g == getRolePermission(Head(roles), cache, fetch, t)
             resolved == applyUserPermissionResourceValues(g.perms, claims)
             written == IF g.err = NoError
                        THEN [g.cache EXCEPT ![Head(roles)].perms = resolved]
                        ELSE g.cache
             rest == RoleLoop_SubstitutesInPlace(Tail(roles), claims, requiredPermission,
                                                 written, fetch, t)
         IN  IF g.err # NoError
             THEN IF g.err = errRoleNotFound
                  THEN [rest EXCEPT !.fetched = g.fetched \o rest.fetched]
                  ELSE [ok |-> FALSE, err |-> g.err, cache |-> written,
                        fetched |-> g.fetched]
             ELSE IF permissionAllowed(resolved, requiredPermission)
                  THEN [ok |-> TRUE, err |-> NoError, cache |-> written,
                        fetched |-> g.fetched]
                  ELSE [rest EXCEPT !.fetched = g.fetched \o rest.fetched]

\* Lines 197-210: the loop over claims.Roles.
RECURSIVE RoleLoop(_, _, _, _, _, _)
RoleLoop(roles, claims, requiredPermission, cache, fetch, t) ==
    IF roles = <<>>
    THEN [ok |-> FALSE, err |-> NoError, cache |-> cache, fetched |-> <<>>]
    ELSE LET g == getRolePermission(Head(roles), cache, fetch, t)
             rest == RoleLoop(Tail(roles), claims, requiredPermission, g.cache, fetch, t)
         IN  IF g.err # NoError
             THEN IF g.err = errRoleNotFound
                  THEN [rest EXCEPT !.fetched = g.fetched \o rest.fetched]
                  ELSE [ok |-> FALSE, err |-> g.err, cache |-> g.cache,
                        fetched |-> g.fetched]
             ELSE IF permissionAllowed(
                        applyUserPermissionResourceValues(g.perms, claims),
                        requiredPermission)
                  THEN [ok |-> TRUE, err |-> NoError, cache |-> g.cache,
                        fetched |-> g.fetched]
                  ELSE [rest EXCEPT !.fetched = g.fetched \o rest.fetched]

\* Mutant of ValidatePermissionResult: the roles are resolved before the
\* direct permissions are looked at (no short-circuit at line 194).
ValidatePermissionResult_NoShortCircuit(claims, requiredPermission, bindings, order, cache, fetch, t) ==
    LET required == [requiredPermission EXCEPT
                        !.Resource = ApplyBindings(requiredPermission.Resource,
                                                   bindings, order)]
    IN  IF claims.isNil
        THEN [ok |-> FALSE, err |-> NoError, cache |-> cache, fetched |-> <<>>,
              required |-> requiredPermission]
        ELSE LET r == RoleLoop(claims.Roles, claims, required, cache, fetch, t)
             IN  IF r.err = NoError /\ permissionAllowed(claims.Permissions, required)
                 THEN [ok |-> TRUE, err |-> NoError, cache |-> r.cache,
                       fetched |-> r.fetched, required |-> required]
                 ELSE [ok |-> r.ok, err |-> r.err, cache |-> r.cache,
                       fetched |-> r.fetched, required |-> required]

\* Mutant of ValidatePermissionResult: nil claims are an error, as they are
\* in ValidateAudience.
ValidatePermissionResult_NilClaimsError(claims, requiredPermission, bindings, order, cache, fetch, t) ==
    LET required == [requiredPermission EXCEPT
                        !.Resource = ApplyBindings(requiredPermission.Resource,
                                                   bindings, order)]
    IN  IF claims.isNil
        THEN [ok |-> FALSE, err |-> "claims is nil", cache |-> cache,
              fetched |-> <<>>, required |-> requiredPermission]
        ELSE IF permissionAllowed(claims.Permissions, required)
        THEN [ok |-> TRUE, err |-> NoError, cache |-> cache, fetched |-> <<>>,
              required |-> required]
        ELSE LET r == RoleLoop(claims.Roles, claims, required, cache, fetch, t)
             IN  [ok |-> r.ok, err |-> r.err, cache |-> r.cache,
                  fetched |-> r.fetched, required |-> required]

\* ValidatePermission, lines 186-211: its two results, the cache it leaves and
\* the roles it fetched, in order.
ValidatePermissionResult(claims, requiredPermission, bindings, order, cache, fetch, t) ==
    LET required == [requiredPermission EXCEPT
                        !.Resource = ApplyBindings(requiredPermission.Resource,
                                                   bindings, order)]
    IN  IF claims.isNil
        THEN [ok |-> FALSE, err |-> NoError, cache |-> cache, fetched |-> <<>>,
              required |-> requiredPermission]
        ELSE IF permissionAllowed(claims.Permissions, required)
        THEN [ok |-> TRUE, err |-> NoError, cache |-> cache, fetched |-> <<>>,
              required |-> required]
        ELSE LET r == RoleLoop(claims.Roles, claims, required, cache, fetch, t)
             IN  [ok |-> r.ok, err |-> r.err, cache |-> r.cache,
                  fetched |-> r.fetched, required |-> required]

ValidatePermission(claims, requiredPermission, bindings, order, fetch) ==
    \E r \in { ValidatePermissionResult(claims, requiredPermission, bindings, order,
                                        rolePermissionCache, fetch, now) } :
        /\ pcall' = [op |-> "ValidatePermission", claims |-> claims,
                     resource |-> r.required.Resource, action |-> r.required.Action,
                     ok |-> r.ok, err |-> r.err, fetched |-> r.fetched,
                     baseURI |-> "", pattern |-> requiredPermission.Resource,
                     bindings |-> bindings]
        /\ rolePermissionCache' = r.cache
        /\ UNCHANGED <<baseURICache, now, validationVars>>

\* getClientInformation, lines 323-358: on success the base URI is cached
\* (line 355), on failure the cache is left alone.
getClientInformation(entry, fetch, t) ==
    IF fetch.ok
    THEN [err |-> NoError,
          entry |-> [present |-> TRUE, uri |-> fetch.val, expiry |-> t + CacheTTL]]
    ELSE [err |-> FetchFailed, entry |-> entry]

\* Mutant of ValidateAudienceResult: the early return of lines 271-274 for
\* claims without an audience is missing.
ValidateAudienceResult_NoAudienceChecked(claims, entry, fetch, t) ==
    IF claims.isNil
    THEN [err |-> "claims is nil", entry |-> entry, fetched |-> <<>>, baseURI |-> ""]
    ELSE LET found == CacheHit(entry, t)
             info == getClientInformation(entry, fetch, t)
         IN  IF ~found /\ info.err # NoError
             THEN [err |-> info.err, entry |-> info.entry,
                   fetched |-> <<"baseURI">>, baseURI |-> ""]
             ELSE LET after == IF found THEN entry ELSE info.entry
                      baseURI == after.uri
                      isAllowed == \E i \in DOMAIN claims.Audience :
                                      claims.Audience[i] = baseURI
                  IN  [err |-> IF isAllowed THEN NoError ELSE "AudienceMismatch",
                       entry |-> after,
                       fetched |-> IF found THEN <<>> ELSE <<"baseURI">>,
                       baseURI |-> baseURI]

\* ValidateAudience, lines 266-300: the error it returns, the cache entry it
\* leaves, whether it fetched and the base URI it compared with.
ValidateAudienceResult(claims, entry, fetch, t) ==
    IF claims.isNil
    THEN [err |-> "claims is nil", entry |-> entry, fetched |-> <<>>, baseURI |-> ""]
    ELSE IF ~claims.hasAudience
    THEN [err |-> NoError, entry |-> entry, fetched |-> <<>>, baseURI |-> ""]
    ELSE LET found == CacheHit(entry, t)
             info == getClientInformation(entry, fetch, t)
         IN  IF ~found /\ info.err # NoError
             THEN [err |-> info.err, entry |-> info.entry,
                   fetched |-> <<"baseURI">>, baseURI |-> ""]
             ELSE LET after == IF found THEN entry ELSE info.entry
                      baseURI == after.uri
                      isAllowed == \E i \in DOMAIN claims.Audience :
                                      claims.Audience[i] = baseURI
                  IN  [err |-> IF isAllowed THEN NoError ELSE "AudienceMismatch",
                       entry |-> after,
                       fetched |-> IF found THEN <<>> ELSE <<"baseURI">>,
                       baseURI |-> baseURI]

ValidateAudience(claims, fetch) ==
    \E r \in { ValidateAudienceResult(claims, baseURICache, fetch, now) } :
        /\ pcall' = [op |-> "ValidateAudience", claims |-> claims,
                     resource |-> <<>>, action |-> {}, ok |-> r.err = NoError,
                     err |-> r.err, fetched |-> r.fetched, baseURI |-> r.baseURI,
                     pattern |-> <<>>, bindings |-> <<>>]
        /\ baseURICache' = r.entry
        /\ UNCHANGED <<rolePermissionCache, now, validationVars>>

\* The clock advances.
Tick ==
    /\ now < MaxTime
    /\ now' = now + 1
    /\ UNCHANGED <<rolePermissionCache, baseURICache, pcall, validationVars>>

PermNext ==
    \/ \E q \in PermissionRequests, fetch \in RoleFetches :
          \E order \in IterationOrders(q.bindings) :
             ValidatePermission(q.claims, q.required, q.bindings, order, fetch)
    \/ Tick

\* The permission resolver: ValidatePermission calls and the clock.
PermSpec == Init /\ [][PermNext]_vars

AudienceNext ==
    \/ \E claims \in AudienceRequests, fetch \in BaseURIFetches :
          ValidateAudience(claims, fetch)
    \/ Tick

\* Audience validation: ValidateAudience calls and the clock.
AudienceSpec == Init /\ [][AudienceNext]_vars

----------------------------------------------------------------------------
\* Properties

\* A ValidateAndParseClaims call, finished or under way.
Validating == call.op = "ValidateAndParseClaims"
Validated == Validating /\ call.pc = "done"
\* A step in which the caller starts ValidateAndParseClaims.
ValidateBegins == call.pc = "done" /\ call'.op = "ValidateAndParseClaims" /\ call' # call
\* The call got as far as the subject-level check / the token-level check
\* (the filter it read is an installed one, never the nil of before
\* activation).
ReachedUserCheck == Validating /\ call.pc # "userRevoked"
                    /\ call.err \notin {"NotActivated", "UnableToVerifyJWT"}
ReachedTokenCheck == Validated /\ ~call.seenFilter.isNil

\* C1: local validation is active only if a StartLocalValidation call had
\* both its key-set fetch and its revocation fetch succeed (both are
\* installed, and the activating step is a StartLocalValidation returning
\* nil); a ValidateAndParseClaims call made while it is not active fails with
\* NotActivated and returns no claims, whatever the token.
C1_ActiveOnlyAfterBothFetches ==
    /\ [](localValidationActive =>
            ~keys.isNil /\ ~revocationFilter.isNil /\ jwksTasks > 0 /\ revocationTasks > 0)
    /\ [][(~localValidationActive /\ localValidationActive') =>
            (call'.op = "StartLocalValidation" /\ call'.err = NoError)]_vars
    /\ [][(ValidateBegins /\ ~localValidationActive) =>
            (call'.pc = "done" /\ call'.err = "NotActivated"
             /\ call'.claims = NilClaims)]_vars

\* C1 witness: the key set was loaded, the revocation fetch failed, and a
\* call for a well-signed token was refused with NotActivated.
C1_Witness ==
    /\ Validated /\ call.err = "NotActivated" /\ call.claims = NilClaims
    /\ call.tok.id = "tD"
    /\ ~keys.isNil /\ revocationFilter.isNil /\ ~localValidationActive

\* C2: ValidateAndParseClaims returns claims with a nil error iff local
\* validation is active, the JWT check succeeds on the key set it read, the
\* subject-level check passes on the map it read and the token-level check
\* passes on the filter it read; otherwise nil claims and a non-nil error.
C2_ClaimsIffAllChecksPass ==
    /\ Validating /\ call.pc # "done" => call.claims = NilClaims /\ call.err = NoError
    /\ Validated =>
        /\ call.claims # NilClaims <=> call.err = NoError
        /\ call.claims # NilClaims => call.claims = ClaimsOf(call.tok)
        /\ call.err = NoError <=>
              /\ localValidationActive
              /\ validateJWT(call.tok, call.seenKeys) = "ok"
              /\ ~(call.tok.sub \in DOMAIN call.seenUsers
                   /\ call.seenUsers[call.tok.sub] >= call.tok.iat)
              /\ ~call.seenFilter.isNil
              /\ ~(BloomBits(call.tok.id) \subseteq call.seenFilter.bits)

\* C2 witness: a call that passed all four checks and returned the claims of
\* its token (signed with k2, subject u2 revoked for tokens issued up to 2).
C2_Witness ==
    /\ Validated /\ call.err = NoError /\ call.claims = <<"u2", 3>>
    /\ call.tok.id = "tE"
    /\ "u2" \in DOMAIN call.seenUsers

C4_SubjectLevelCheck ==
    /\ [][(call.pc = "userRevoked" /\ call'.pc # "userRevoked") =>
            (call'.seenUsers = revokedUsers)]_vars
    /\ [](ReachedUserCheck =>
            IF call.tok.sub \in DOMAIN call.seenUsers
            THEN call.seenUsers[call.tok.sub] >= call.tok.iat =>
                    call.pc = "done" /\ call.err = "UserRevoked" /\ call.claims = NilClaims
            ELSE call.err # "UserRevoked")
    /\ [](Validating /\ ~ReachedUserCheck => call.err # "UserRevoked")

\* C4 witness: a subject absent from a non-empty map passed the check, with
\* u1 revoked in the same map.
C4_Witness ==
    /\ ReachedUserCheck /\ call.tok.sub = "u2"
    /\ DOMAIN call.seenUsers = {"u1"}
    /\ call.pc = "tokenRevoked"

\* C5: a token present in the installed filter when the token-level check
\* reads it is rejected with TokenRevoked; a token absent from it is not
\* rejected by the token-level check (the call returns its claims).
C5_TokenLevelCheck ==
    /\ [][(call.pc = "tokenRevoked" /\ call'.pc # "tokenRevoked") =>
            (call'.seenFilter = revocationFilter)]_vars
    /\ [](ReachedTokenCheck =>
            IF MightContain(call.seenFilter, call.tok.id)
            THEN call.err = "TokenRevoked" /\ call.claims = NilClaims
            ELSE call.err = NoError /\ call.claims = ClaimsOf(call.tok))
    /\ [](Validating /\ ~ReachedTokenCheck => call.err # "TokenRevoked")

\* C5 witness: the revoked token tC is rejected with TokenRevoked.
C5_Witness ==
    /\ Validated /\ call.tok.id = "tC" /\ call.err = "TokenRevoked"
    /\ MightContain(revocationFilter, "tC")

\* C6: the subject-level check and the token-level check of one call read
\* the same revocation snapshot: the map and the filter the call read are the
\* two halves of one published revocation list.
C6_ChecksReadOneSnapshot ==
    ReachedTokenCheck =>
        \E r \in RevocationLists :
            /\ call.seenUsers = r.users
            /\ call.seenFilter = BloomFrom(r.tokens)

\* C7: a failing key (revocation) refresh cycle leaves the installed key set
\* (filter and revoked-subject map) as it was, writes its own HealthState
\* slot only, and leaves its loop running; no refresh goroutine ever ends.
C7_FailedRefreshKeepsSnapshot ==
    /\ [][(jwksRefreshError = NoError /\ jwksRefreshError' # NoError) =>
            /\ keys' = keys /\ ~keys.isNil
            /\ UNCHANGED <<revocationFilter, revokedUsers, clientAccessToken,
                           revocationListRefreshError, tokenRefreshError,
                           tokenRefreshActive, localValidationActive, call>>
            /\ jwksTasks' = jwksTasks /\ jwksTasks > 0]_vars
    /\ [][(revocationListRefreshError = NoError /\ revocationListRefreshError' # NoError) =>
            /\ revocationFilter' = revocationFilter /\ ~revocationFilter.isNil
            /\ revokedUsers' = revokedUsers
            /\ UNCHANGED <<keys, clientAccessToken, jwksRefreshError,
                           tokenRefreshError, tokenRefreshActive,
                           localValidationActive, call>>
            /\ revocationTasks' = revocationTasks /\ revocationTasks > 0]_vars
    /\ [][jwksTasks' >= jwksTasks /\ revocationTasks' >= revocationTasks]_vars
    /\ []((jwksRefreshError # NoError => ENABLED (\E f \in KeyFetches : refreshJWKS(f)))
          /\ (revocationListRefreshError # NoError =>
                ENABLED (\E f \in RevocationFetches : refreshRevocationList(f))))

\* C7 witness: a key refresh has failed, the key set {k1, k2} is still
\* installed and a token signed with k2 has just passed validateJWT with it.
C7_Witness ==
    /\ jwksRefreshError # NoError /\ revocationListRefreshError = NoError
    /\ keys.kids = {"k1", "k2"}
    /\ call.pc = "userRevoked" /\ call.tok.id = "tE"

\* C8: while a key-refresh error is recorded HealthCheck returns false on
\* every call; the error goes away only by a successful key-refresh cycle,
\* after which HealthCheck is true again if the other slots are error-free;
\* and, the loops never stopping, a recorded key-refresh error is eventually
\* cleared when the fetcher eventually succeeds.
C8_KeyRefreshErrorSticky ==
    /\ [][(call' # call /\ call'.op = "HealthCheck" /\ jwksRefreshError # NoError) =>
            call'.healthy = FALSE]_vars
    /\ [][(jwksRefreshError # NoError /\ jwksRefreshError' = NoError) =>
            /\ jwksTasks > 0 /\ keys' \in KeySets
            /\ UNCHANGED <<clientAccessToken, revocationFilter, revokedUsers,
                           tokenRefreshActive, localValidationActive,
                           revocationListRefreshError, tokenRefreshError,
                           jwksTasks, revocationTasks, tokenSpawned, tokenTasks, call>>]_vars
    /\ [][(call' # call /\ call'.op = "HealthCheck" /\ jwksRefreshError = NoError
           /\ revocationListRefreshError = NoError /\ tokenRefreshError = NoError) =>
            call'.healthy = TRUE]_vars
    /\ (jwksRefreshError # NoError) ~> (jwksRefreshError = NoError)

\* C8 witness: a key-refresh error is recorded, the other slots are
\* error-free, and HealthCheck has answered false.
C8_Witness ==
    /\ call.op = "HealthCheck" /\ ~call.healthy
    /\ jwksRefreshError # NoError
    /\ revocationListRefreshError = NoError /\ tokenRefreshError = NoError

\* C9: HealthCheck returns true iff no key-refresh error and no
\* revocation-refresh error is recorded and bearer-token refresh is inactive
\* or has no error recorded; the call changes nothing of the client.
C9_HealthCheckIff ==
    [][(call' # call /\ call'.op = "HealthCheck") =>
        /\ call'.healthy = TRUE <=>
              /\ jwksRefreshError = NoError
              /\ revocationListRefreshError = NoError
              /\ (~tokenRefreshActive \/ tokenRefreshError = NoError)
        /\ UNCHANGED <<clientFields, jwksTasks, revocationTasks, tokenSpawned, tokenTasks>>]_vars

\* C9 witness: HealthCheck answered false for the bearer-token slot alone.
C9_Witness ==
    /\ call.op = "HealthCheck" /\ ~call.healthy
    /\ jwksRefreshError = NoError /\ revocationListRefreshError = NoError
    /\ tokenRefreshActive /\ tokenRefreshError # NoError

\* C10: at most one background goroutine per refresh kind exists, whatever
\* calls of StartLocalValidation and ClientTokenGrant were made.
C10_OneTaskPerKind ==
    /\ jwksTasks <= 1
    /\ revocationTasks <= 1
    /\ tokenSpawned + tokenTasks <= 1

\* C20: a StartLocalValidation call that fails (on the key-set fetch, or on
\* the revocation fetch after the key-set fetch succeeded) returns an error,
\* starts no goroutine and leaves localValidationActive as it was, so that
\* ValidateAndParseClaims keeps failing with NotActivated while no call has
\* succeeded; once active, local validation stays active.
C20_FailedStartLeavesInactive ==
    /\ [][(call'.op = "StartLocalValidation" /\ call'.err # NoError) =>
            /\ jwksTasks' = jwksTasks /\ revocationTasks' = revocationTasks
            /\ tokenSpawned' + tokenTasks' = tokenSpawned + tokenTasks
            /\ localValidationActive' = localValidationActive]_vars
    /\ [](~localValidationActive => jwksTasks = 0 /\ revocationTasks = 0)
    /\ []((Validated /\ ~localValidationActive) =>
            call.err = "NotActivated" /\ call.claims = NilClaims)
    /\ [][localValidationActive => localValidationActive']_vars

\* C20 witness: the key-set fetch succeeded, the revocation fetch failed, the
\* call returned its error, no goroutine runs and validation is inactive.
C20_Witness ==
    /\ call.op = "StartLocalValidation"
    /\ call.err = "unable to get revocation list"
    /\ ~keys.isNil /\ revocationFilter.isNil
    /\ ~localValidationActive /\ jwksTasks = 0 /\ revocationTasks = 0

----------------------------------------------------------------------------
\* Properties of ValidatePermission and ValidateAudience

\* A step of a ValidatePermission (ValidateAudience) call: the clock stands.
PermissionCallStep == pcall'.op = "ValidatePermission" /\ now' = now
AudienceCallStep == pcall'.op = "ValidateAudience" /\ now' = now

\* The fetch for the role would be made (its entry is absent or expired) and
\* would fail with an error other than role-not-found.
Fails(role, cache, fetch, t) == ~CacheHit(cache[role], t) /\ fetch[role] = "fail"

\* What the role contributes: its cached permissions while the entry is
\* unexpired, otherwise what the fetch finds; nothing when it is not found.
Grants(role, cache, fetch, t) ==
    IF CacheHit(cache[role], t)
    THEN IF cache[role].found THEN cache[role].perms ELSE {}
    ELSE IF fetch[role] = "found" THEN RoleGrants(role) ELSE {}

\* The role's permissions, resolved for the token, allow the permission.
Matches(role, claims, required, cache, fetch, t) ==
    permissionAllowed(
        applyUserPermissionResourceValues(Grants(role, cache, fetch, t), claims),
        required)

\* The role at position i is the first whose fetch fails, and neither the
\* direct permissions nor any earlier role matched.
Decisive(i, claims, required, cache, fetch, t) ==
    /\ ~claims.isNil
    /\ ~permissionAllowed(claims.Permissions, required)
    /\ i \in DOMAIN claims.Roles
    /\ Fails(claims.Roles[i], cache, fetch, t)
    /\ \A j \in 1..(i - 1) :
          /\ ~Fails(claims.Roles[j], cache, fetch, t)
          /\ ~Matches(claims.Roles[j], claims, required, cache, fetch, t)

Range(seq) == { seq[i] : i \in DOMAIN seq }
Reverse(seq) == [i \in 1..Len(seq) |-> seq[Len(seq) + 1 - i]]

\* C11: from every reachable cache state and for every call and fetch
\* outcome, ValidatePermission returns an error iff some role's fetch fails
\* with an error other than role-not-found before any match; it then returns
\* (false, that error) and consults no later role. Role-not-found is never
\* returned, and with no match and no failing fetch the result is (false, nil).
C11_ErrorIffDecisiveFetchFails ==
    \A q \in PermissionRequests, fetch \in RoleFetches :
      \A order \in IterationOrders(q.bindings) :
        \A r \in { ValidatePermissionResult(q.claims, q.required, q.bindings, order,
                                            rolePermissionCache, fetch, now) } :
          LET roles == q.claims.Roles
              D(i) == Decisive(i, q.claims, r.required, rolePermissionCache, fetch, now)
          IN  /\ (r.err # NoError) <=> (\E i \in DOMAIN roles : D(i))
              /\ \A i \in DOMAIN roles : D(i) =>
                    /\ ~r.ok /\ r.err = FetchFailed
                    /\ r.fetched # <<>> /\ r.fetched[Len(r.fetched)] = roles[i]
                    /\ \A k \in (i + 1)..Len(roles) :
                          /\ roles[k] \notin Range(r.fetched)
                          /\ r.cache[roles[k]] = rolePermissionCache[roles[k]]
              /\ r.err # errRoleNotFound
              /\ ( /\ ~q.claims.isNil
                   /\ ~permissionAllowed(q.claims.Permissions, r.required)
                   /\ \A i \in DOMAIN roles :
                        /\ ~Fails(roles[i], rolePermissionCache, fetch, now)
                        /\ ~Matches(roles[i], q.claims, r.required,
                                    rolePermissionCache, fetch, now) )
                 => (~r.ok /\ r.err = NoError)

\* C11 witness: the not-found role was skipped (served from its cached
\* negative entry), the next role's fetch failed and the call returned
\* (false, that error).
C11_Witness ==
    /\ pcall.op = "ValidatePermission"
    /\ pcall.claims.Roles = <<"ghost", "mod">>
    /\ ~pcall.ok /\ pcall.err = FetchFailed
    /\ pcall.fetched = <<"mod">>
    /\ rolePermissionCache["ghost"].present /\ ~rolePermissionCache["ghost"].found

\* C12 as stated: the roles in reverse order give the same (bool, error),
\* whatever the fetch outcomes, failing ones included.
C12_AsStated ==
    \A q \in PermissionRequests, fetch \in RoleFetches :
      \A order \in IterationOrders(q.bindings) :
        \A r \in { ValidatePermissionResult(q.claims, q.required, q.bindings, order,
                                            rolePermissionCache, fetch, now) } :
          \A v \in { ValidatePermissionResult(
                         [q.claims EXCEPT !.Roles = Reverse(q.claims.Roles)],
                         q.required, q.bindings, order,
                         rolePermissionCache, fetch, now) } :
             r.ok = v.ok /\ r.err = v.err

\* C12: when no role of the claims has a failing fetch (each is served from
\* an unexpired entry, found or not found), the roles in reverse order give
\* the same (bool, error).
C12_OrderIndependentWithoutFailure ==
    \A q \in PermissionRequests, fetch \in RoleFetches :
      \A order \in IterationOrders(q.bindings) :
        (\A i \in DOMAIN q.claims.Roles :
            ~Fails(q.claims.Roles[i], rolePermissionCache, fetch, now))
        => \A r \in { ValidatePermissionResult(q.claims, q.required, q.bindings, order,
                                               rolePermissionCache, fetch, now) } :
             \A v \in { ValidatePermissionResult(
                            [q.claims EXCEPT !.Roles = Reverse(q.claims.Roles)],
                            q.required, q.bindings, order,
                            rolePermissionCache, fetch, now) } :
                r.ok = v.ok /\ r.err = v.err

\* C12 witness: two roles, the first not found and the second matching; both
\* were fetched and the call returned (true, nil).
C12_Witness ==
    /\ pcall.op = "ValidatePermission"
    /\ pcall.claims.Roles = <<"ghost", "mod">>
    /\ pcall.ok /\ pcall.err = NoError
    /\ pcall.fetched = <<"ghost", "mod">>

\* C13 as stated: after a call with claims, the pattern that was matched is
\* the required pattern with every occurrence of every bound placeholder
\* replaced by its value.
C13_EveryOccurrenceReplaced ==
    (pcall.op = "ValidatePermission" /\ ~pcall.claims.isNil) =>
        pcall.resource =
            [i \in DOMAIN pcall.pattern |->
                IF pcall.pattern[i] \in DOMAIN pcall.bindings
                THEN pcall.bindings[pcall.pattern[i]]
                ELSE pcall.pattern[i]]

\* C14: a call whose substituted required permission is allowed by a direct
\* permission of the claims returns (true, nil), fetches nothing and leaves
\* the role-permission cache as it was.
C14_DirectMatchShortCircuits ==
    [][( /\ PermissionCallStep
         /\ ~pcall'.claims.isNil
         /\ permissionAllowed(pcall'.claims.Permissions,
                              Permission(pcall'.resource, pcall'.action)) )
       => ( /\ pcall'.ok /\ pcall'.err = NoError
            /\ pcall'.fetched = <<>>
            /\ rolePermissionCache' = rolePermissionCache )]_vars

\* C14 witness: claims with a matching direct permission and a role that was
\* never fetched; the call returned (true, nil).
C14_Witness ==
    /\ pcall.op = "ValidatePermission"
    /\ pcall.claims.Roles = <<"ghost">>
    /\ pcall.claims.Permissions # {}
    /\ pcall.ok /\ pcall.err = NoError /\ pcall.fetched = <<>>
    /\ ~rolePermissionCache["ghost"].present

\* The number of fetches made for the role during the call.
FetchCount(fetched, role) == Cardinality({ i \in DOMAIN fetched : fetched[i] = role })

\* C15: in every ValidatePermission call, a role with an unexpired entry
\* (found or not found) is not fetched and its entry stays; a call that has
\* to consult a first role without such an entry fetches it; no role is
\* fetched twice; the outcome of every fetch that did not fail is cached,
\* the negative one included, until now + CacheTTL, and only a fetch changes
\* an entry; a call for one role served from its entry is decided by the
\* cached outcome alone.
C15_OneFetchPerTTL ==
    [][PermissionCallStep =>
        /\ \A role \in RoleIds :
              /\ CacheHit(rolePermissionCache[role], now) =>
                    /\ FetchCount(pcall'.fetched, role) = 0
                    /\ rolePermissionCache'[role] = rolePermissionCache[role]
              /\ FetchCount(pcall'.fetched, role) <= 1
              /\ rolePermissionCache'[role] # rolePermissionCache[role] =>
                    /\ FetchCount(pcall'.fetched, role) = 1
                    /\ rolePermissionCache'[role].present
                    /\ rolePermissionCache'[role].expiry = now + CacheTTL
              /\ ( /\ FetchCount(pcall'.fetched, role) = 1
                   /\ \/ pcall'.err = NoError
                      \/ pcall'.fetched[Len(pcall'.fetched)] # role )
                 => /\ rolePermissionCache'[role].present
                    /\ rolePermissionCache'[role].expiry = now + CacheTTL
                    /\ CacheHit(rolePermissionCache'[role], now + CacheTTL)
                    /\ ~CacheHit(rolePermissionCache'[role], now + CacheTTL + 1)
        /\ ( /\ ~pcall'.claims.isNil
             /\ pcall'.claims.Roles # <<>>
             /\ ~permissionAllowed(pcall'.claims.Permissions,
                                   Permission(pcall'.resource, pcall'.action)) )
           => LET first == Head(pcall'.claims.Roles)
                  entry == rolePermissionCache[first]
              IN  /\ ~CacheHit(entry, now) =>
                        pcall'.fetched # <<>> /\ Head(pcall'.fetched) = first
                  /\ (CacheHit(entry, now) /\ Len(pcall'.claims.Roles) = 1) =>
                        /\ pcall'.fetched = <<>>
                        /\ pcall'.err = NoError
                        /\ pcall'.ok =
                             ( /\ entry.found
                               /\ permissionAllowed(
                                    applyUserPermissionResourceValues(entry.perms,
                                                                      pcall'.claims),
                                    Permission(pcall'.resource, pcall'.action)) )
       ]_vars

\* C15 witness: a call for role mod was allowed without a fetch, from the
\* entry an earlier call cached, at the last instant before the entry expires.
C15_Witness ==
    /\ pcall.op = "ValidatePermission"
    /\ pcall.claims.Roles = <<"mod">>
    /\ pcall.ok /\ pcall.fetched = <<>>
    /\ rolePermissionCache["mod"].present
    /\ now = rolePermissionCache["mod"].expiry
    /\ now > 0

\* C16 as stated: from every reachable cache state, a call returns the same
\* (bool, error) whatever order the bindings map is iterated in.
C16_SameResultForEveryIterationOrder ==
    \A q \in PermissionRequests, fetch \in RoleFetches :
      \A o1, o2 \in IterationOrders(q.bindings) :
        \A r \in { ValidatePermissionResult(q.claims, q.required, q.bindings, o1,
                                            rolePermissionCache, fetch, now) } :
          \A v \in { ValidatePermissionResult(q.claims, q.required, q.bindings, o2,
                                              rolePermissionCache, fetch, now) } :
             r.ok = v.ok /\ r.err = v.err

\* C17 as stated: without an audience the call returns nil and fetches
\* nothing; with one it returns nil iff some entry equals the registered
\* base URI, and AudienceMismatch otherwise.
C17_AsStated ==
    (pcall.op = "ValidateAudience" /\ ~pcall.claims.isNil) =>
        IF ~pcall.claims.hasAudience
        THEN pcall.err = NoError /\ pcall.fetched = <<>>
        ELSE /\ (pcall.err = NoError) <=>
                   (\E i \in DOMAIN pcall.claims.Audience :
                       pcall.claims.Audience[i] = pcall.baseURI)
             /\ pcall.err # NoError => pcall.err = "AudienceMismatch"

\* The verdict of lines 287-299 against the base URI.
AudienceVerdict(claims, uri, err) ==
    /\ (err = NoError) <=> (\E i \in DOMAIN claims.Audience : claims.Audience[i] = uri)
    /\ err # NoError => err = "AudienceMismatch"

\* C17: without an audience the call returns nil, fetches nothing and leaves
\* the base-URI cache alone; with one, the base URI is the unexpired cached
\* one (no fetch, cache unchanged) or else a fetched one, cached until
\* now + CacheTTL, and the verdict is nil iff some entry equals it, otherwise
\* AudienceMismatch; when that fetch fails the call returns the fetch error
\* and the cache stays as it was.
C17_AudienceOrFetchError ==
    [][(AudienceCallStep /\ ~pcall'.claims.isNil) =>
        IF ~pcall'.claims.hasAudience
        THEN /\ pcall'.err = NoError /\ pcall'.fetched = <<>>
             /\ baseURICache' = baseURICache
        ELSE IF CacheHit(baseURICache, now)
        THEN /\ pcall'.fetched = <<>>
             /\ baseURICache' = baseURICache
             /\ AudienceVerdict(pcall'.claims, baseURICache.uri, pcall'.err)
        ELSE /\ pcall'.fetched = <<"baseURI">>
             /\ \/ pcall'.err = FetchFailed /\ baseURICache' = baseURICache
                \/ /\ baseURICache'.present
                   /\ baseURICache'.expiry = now + CacheTTL
                   /\ AudienceVerdict(pcall'.claims, baseURICache'.uri, pcall'.err)
       ]_vars

\* C17 witness: claims with an audience, no unexpired base URI in the cache,
\* the fetch failed and the call returned the fetch error.
C17_Witness ==
    /\ pcall.op = "ValidateAudience"
    /\ pcall.claims.hasAudience /\ pcall.claims.Audience = <<"https://app">>
    /\ pcall.err = FetchFailed /\ pcall.fetched = <<"baseURI">>
    /\ ~CacheHit(baseURICache, now)

\* C18: a call with nil claims returns (false, nil), fetches nothing and
\* leaves the role-permission cache as it was.
C18_NilClaimsDenied ==
    [][(PermissionCallStep /\ pcall'.claims.isNil) =>
          /\ ~pcall'.ok /\ pcall'.err = NoError
          /\ pcall'.fetched = <<>>
          /\ rolePermissionCache' = rolePermissionCache]_vars

\* C18 witness: a call with nil claims returned (false, nil) while the cache
\* held an entry.
C18_Witness ==
    /\ pcall.op = "ValidatePermission"
    /\ pcall.claims.isNil
    /\ ~pcall.ok /\ pcall.err = NoError /\ pcall.fetched = <<>>
    /\ pcall.pattern = TwiceResource
    /\ \E role \in RoleIds : rolePermissionCache[role].present

====
